---- MODULE Spec2Model ----
(***************************************************************************)
(* Model of the LCD driver in src/src/lib.rs: the Lcd value (builder and   *)
(* handle are the same Rust type), the nibble encoder (write4bits, send),  *)
(* init, and the command API, run against a recording bus transport and a  *)
(* recording delay source.  Every public method is one action; the bytes   *)
(* and delays it emits are computed by operators that follow the code      *)
(* line by line, `?` included.                                             *)
(***************************************************************************)
EXTENDS Integers, Sequences, FiniteSets, TLC

VARIABLES
    lcd,      \* the Lcd struct: address, rows, backlight_state, cursor_on, cursor_blink
    stage,    \* "new": built, init not yet Ok; "ready": init returned Ok(self);
              \* "encoder"/"done": before/after a direct call of the private encoder;
              \* "dropped": init returned Err (self consumed); "failed": a command
              \* returned Err and the caller gives the handle up; "panicked"
    call,     \* the latest public call: [op, args]
    bus,      \* events (bus writes, delays) recorded during the latest call
    sent,     \* bytes whose two nibbles were both written during the latest call
    result,   \* what the latest call returned: [tag, err]
    due       \* history: a Clear/ReturnHome was fully sent and nothing happened since

vars == <<lcd, stage, call, bus, sent, result, due>>

-----------------------------------------------------------------------------
(* Bounds of the model *)

\* longest text given to write_str
MaxTextLen == 2
\* in a call whose length depends on its arguments the transport fails the
\* k-th write, k in 1..MaxFailAt, or none
MaxFailAt == 5

\* characters of the texts: 'A' and the euro sign U+20AC
Chars == {65, 8364}
\* values given to the builder's setters
Addresses == {39}
RowCounts == {0, 2}
\* (row, col) pairs given to set_cursor
CursorArgs == {<<0, 0>>, <<1, 3>>, <<6, 16>>}
\* errors the bus transport can report
BusErrors == {"Nack", "Overrun"}

-----------------------------------------------------------------------------
(* The enums of the driver *)

DisplayControl_Off == 0
DisplayControl_CursorBlink == 1
DisplayControl_CursorOn == 2
DisplayControl_DisplayOn == 4

Backlight_Off == 0
Backlight_On == 8

Mode_Cmd == 0
Mode_Data == 1
Mode_DisplayControl == 8
Mode_FunctionSet == 32

Commands_Clear == 1
Commands_ReturnHome == 2
Commands_ShiftCursor == 20

BitMode_Bit4 == 0
BitMode_Bit8 == 16

Backlight == {Backlight_Off, Backlight_On}
Mode == {Mode_Cmd, Mode_Data, Mode_DisplayControl, Mode_FunctionSet}

-----------------------------------------------------------------------------
(* u8 arithmetic *)

RECURSIVE BitOr(_, _)
BitOr(a, b) ==
    IF a = 0 THEN b
    ELSE IF b = 0 THEN a
    ELSE (IF a % 2 = 1 \/ b % 2 = 1 THEN 1 ELSE 0) + 2 * BitOr(a \div 2, b \div 2)

RECURSIVE BitAnd(_, _)
BitAnd(a, b) ==
    IF a = 0 \/ b = 0 THEN 0
    ELSE (IF a % 2 = 1 /\ b % 2 = 1 THEN 1 ELSE 0) + 2 * BitAnd(a \div 2, b \div 2)

\* data << 4 on a u8: the bits shifted out are lost
Shl4(data) == (data * 16) % 256

\* c as u8 for a char c: the low 8 bits of the code point
CharAsU8(c) == c % 256

-----------------------------------------------------------------------------
(* The run of one call: the Lcd value, what the transport and the delay    *)
(* source have recorded, and whether the call is still running (res.tag =  *)
(* "Ok") or has returned early through `?` or panicked.                    *)

Ok == [tag |-> "Ok", err |-> "none"]
Err(e) == [tag |-> "Err", err |-> e]
Panic == [tag |-> "Panic", err |-> "none"]

NoFail == [at |-> 0, err |-> "none"]

Start(self, plan) ==
    [self |-> self, bus |-> <<>>, sent |-> <<>>, writes |-> 0, plan |-> plan, res |-> Ok]

\* self.i2c.write(self.address, &[byte]): the transport records the write and
\* answers Ok or, on the write the plan names, Err
i2c_write(m, byte) ==
    IF m.res.tag # "Ok" THEN m
    ELSE LET n == m.writes + 1
             fails == (n = m.plan.at)
         IN  [m EXCEPT !.writes = n,
                       !.bus = Append(@, [kind |-> "write",
                                          address |-> m.self.address,
                                          byte |-> byte,
                                          res |-> IF fails THEN Err(m.plan.err) ELSE Ok,
                                          backlight_state |-> m.self.backlight_state]),
                       !.res = IF fails THEN Err(m.plan.err) ELSE Ok]

\* delay.delay_ms(ms)
delay_ms(m, ms) ==
    IF m.res.tag # "Ok" THEN m
    ELSE [m EXCEPT !.bus = Append(@, [kind |-> "delay", ms |-> ms])]

-----------------------------------------------------------------------------
(* The nibble encoder *)

\* faulty variant: the falling edge byte leaves the backlight bit out
write4bits_dark_edge(m, data) ==
    LET m1 == i2c_write(m, BitOr(BitOr(data, DisplayControl_DisplayOn),
                                m.self.backlight_state))
    IN  i2c_write(m1, DisplayControl_Off)

\* faulty variant: the result of the rising edge write is looked at only after the
\* falling edge write
write4bits_late_check(m, data) ==
    IF m.res.tag # "Ok" THEN m
    ELSE LET m1 == i2c_write(m, BitOr(BitOr(data, DisplayControl_DisplayOn),
                                      m.self.backlight_state))
             m2 == i2c_write([m1 EXCEPT !.res = Ok],
                             BitOr(DisplayControl_Off, m1.self.backlight_state))
         IN  IF m1.res.tag # "Ok" THEN [m2 EXCEPT !.res = m1.res] ELSE m2

\* faulty variant: the second byte keeps the enable bit set
write4bits_enable_held(m, data) ==
    LET m1 == i2c_write(m, BitOr(BitOr(data, DisplayControl_DisplayOn),
                                m.self.backlight_state))
    IN  i2c_write(m1, BitOr(DisplayControl_DisplayOn, m1.self.backlight_state))

write4bits(m, data) ==
    LET m1 == i2c_write(m, BitOr(BitOr(data, DisplayControl_DisplayOn),
                                m.self.backlight_state))
    IN  i2c_write(m1, BitOr(DisplayControl_Off, m1.self.backlight_state))

\* faulty variant: the low nibble goes first
send_low_first(m, data, mode) ==
    LET high_bits == BitAnd(data, 240)
        low_bits  == BitAnd(Shl4(data), 240)
        m1 == write4bits(m, BitOr(low_bits, mode))
        m2 == write4bits(m1, BitOr(high_bits, mode))
    IN  IF m2.res.tag # "Ok" THEN m2
        ELSE [m2 EXCEPT !.sent = Append(@, [data |-> data, mode |-> mode,
                                            end |-> Len(m2.bus)])]

send(m, data, mode) ==
    LET high_bits == BitAnd(data, 240)
        low_bits  == BitAnd(Shl4(data), 240)
        m1 == write4bits(m, BitOr(high_bits, mode))
        m2 == write4bits(m1, BitOr(low_bits, mode))
    IN  IF m2.res.tag # "Ok" THEN m2
        ELSE [m2 EXCEPT !.sent = Append(@, [data |-> data, mode |-> mode,
                                            end |-> Len(m2.bus)])]

\* faulty variant: the byte is written but the new state is not stored
backlight_write_only(m, state) ==
    IF m.res.tag # "Ok" THEN m
    ELSE i2c_write(m, BitOr(DisplayControl_DisplayOn, state))

\* faulty variant: the control byte is clocked out as a nibble, with a falling edge
backlight_framed(m, state) ==
    IF m.res.tag # "Ok" THEN m
    ELSE LET m1 == [m EXCEPT !.self.backlight_state = state]
         IN  write4bits(m1, 0)

\* faulty variant: the new state is stored only once the write has succeeded
backlight_store_on_success(m, state) ==
    IF m.res.tag # "Ok" THEN m
    ELSE LET m1 == i2c_write(m, BitOr(DisplayControl_DisplayOn, state))
         IN  IF m1.res.tag = "Ok" THEN [m1 EXCEPT !.self.backlight_state = state]
             ELSE m1

backlight(m, state) ==
    IF m.res.tag # "Ok" THEN m
    ELSE LET m1 == [m EXCEPT !.self.backlight_state = state]
         IN  i2c_write(m1, BitOr(DisplayControl_DisplayOn, state))

-----------------------------------------------------------------------------
(* The builder *)

\* Lcd::new(i2c, backlight_state)
new(backlight_state) ==
    [address |-> 0, rows |-> 0, backlight_state |-> backlight_state,
     cursor_blink |-> FALSE, cursor_on |-> FALSE]

address(self, a) == [self EXCEPT !.address = a]
cursor_on(self, on) == [self EXCEPT !.cursor_on = on]
cursor_blink(self, on) == [self EXCEPT !.cursor_blink = on]
\* faulty variant: choosing the rows also puts the cursor flags back to their defaults
rows_resets_cursor(self, r) ==
    [self EXCEPT !.rows = r, !.cursor_on = FALSE, !.cursor_blink = FALSE]

rows(self, r) == [self EXCEPT !.rows = r]

-----------------------------------------------------------------------------
(* init *)

\* faulty variant: two resets in 8 bit mode instead of three
init_8bit_two_resets(m) ==
    LET m0 == delay_ms(m, 80)
        mode_8bit == BitOr(Mode_FunctionSet, BitMode_Bit8)
        m1 == delay_ms(write4bits(m0, mode_8bit), 5)
    IN  delay_ms(write4bits(m1, mode_8bit), 5)

\* the power-on wait and the three resets in 8 bit mode
init_8bit(m) ==
    LET m0 == delay_ms(m, 80)
        mode_8bit == BitOr(Mode_FunctionSet, BitMode_Bit8)
        m1 == delay_ms(write4bits(m0, mode_8bit), 5)
        m2 == delay_ms(write4bits(m1, mode_8bit), 5)
    IN  delay_ms(write4bits(m2, mode_8bit), 5)

\* the switch to 4 bit mode
init_4bit(m) ==
    LET mode_4bit == BitOr(Mode_FunctionSet, BitMode_Bit4)
    IN  write4bits(m, mode_4bit)

\* faulty variant: a single row is taken for a one line display
init_lines_above_one(m) ==
    LET lines == IF m.self.rows <= 1 THEN 0 ELSE 8
    IN  send(m, BitOr(Mode_FunctionSet, lines), Mode_Cmd)

\* the number of lines
init_lines(m) ==
    LET lines == IF m.self.rows = 0 THEN 0 ELSE 8
    IN  send(m, BitOr(Mode_FunctionSet, lines), Mode_Cmd)

\* display on, cursor and cursor blink
init_display_ctrl(m) ==
    LET d0 == DisplayControl_DisplayOn
        d1 == IF m.self.cursor_on
              THEN LET c == BitOr(d0, DisplayControl_CursorOn)
                   IN  IF m.self.cursor_blink
                       THEN BitOr(c, DisplayControl_CursorBlink)
                       ELSE c
              ELSE d0
    IN  send(m, BitOr(Mode_DisplayControl, d1), Mode_Cmd)

init(m) ==
    LET m4 == init_4bit(init_8bit(m))
        m6 == init_display_ctrl(init_lines(m4))
        m7 == send(m6, BitOr(Mode_Cmd, Commands_Clear), Mode_Cmd)
        m8 == send(m7, 4, Mode_Cmd)
    IN  backlight(m8, m8.self.backlight_state)

-----------------------------------------------------------------------------
(* The command API *)

\* faulty variant: the characters are sent to the command register
RECURSIVE write_str_as_cmd(_, _)
write_str_as_cmd(m, data) ==
    IF data = <<>> \/ m.res.tag # "Ok" THEN m
    ELSE write_str_as_cmd(send(m, CharAsU8(Head(data)), Mode_Cmd), Tail(data))

\* the UTF-8 encoding of a code point, and of a text
Utf8(c) ==
    IF c < 128 THEN <<c>>
    ELSE IF c < 2048 THEN <<192 + (c \div 64), 128 + (c % 64)>>
    ELSE IF c < 65536
         THEN <<224 + (c \div 4096), 128 + ((c \div 64) % 64), 128 + (c % 64)>>
    ELSE <<240 + (c \div 262144), 128 + ((c \div 4096) % 64),
           128 + ((c \div 64) % 64), 128 + (c % 64)>>

RECURSIVE Utf8Bytes(_)
Utf8Bytes(data) ==
    IF data = <<>> THEN <<>> ELSE Utf8(Head(data)) \o Utf8Bytes(Tail(data))

RECURSIVE send_each(_, _)
send_each(m, bytes) ==
    IF bytes = <<>> \/ m.res.tag # "Ok" THEN m
    ELSE send_each(send(m, Head(bytes), Mode_Data), Tail(bytes))

\* faulty variant: one send for each byte of the text's UTF-8 encoding
write_str_bytes(m, data) == send_each(m, Utf8Bytes(data))

\* for c in data.chars() { self.send(c as u8, Mode::Data)?; }
RECURSIVE write_str(_, _)
write_str(m, data) ==
    IF data = <<>> \/ m.res.tag # "Ok" THEN m
    ELSE write_str(send(m, CharAsU8(Head(data)), Mode_Data), Tail(data))

clear(m) == send(m, Commands_Clear, Mode_Cmd)

\* faulty variant: the settle delay is taken whether or not the send failed
return_home_always_settles(m) ==
    LET m1 == send(m, Commands_ReturnHome, Mode_Cmd)
    IN  IF m.res.tag = "Ok" /\ m1.res.tag = "Err"
        THEN [m1 EXCEPT !.bus = Append(@, [kind |-> "delay", ms |-> 10])]
        ELSE delay_ms(m1, 10)

\* faulty variant: the settle delay is taken before the command is sent
return_home_settles_first(m) == send(delay_ms(m, 10), Commands_ReturnHome, Mode_Cmd)

return_home(m) == delay_ms(send(m, Commands_ReturnHome, Mode_Cmd), 10)

\* for _i in 0..shift { self.send(ShiftCursor, Cmd)?; }
RECURSIVE shift_loop(_, _)
shift_loop(m, n) ==
    IF n = 0 \/ m.res.tag # "Ok" THEN m
    ELSE shift_loop(send(m, Commands_ShiftCursor, Mode_Cmd), n - 1)

\* let shift: u8 = row * 40 + col; with overflow checks an overflowing product
\* or sum panics, without them both wrap
set_cursor(m, row, col, overflow_checks) ==
    LET m1 == return_home(m)
        overflows == row * 40 + col > 255
        shift == (((row * 40) % 256) + col) % 256
    IN  IF m1.res.tag # "Ok" THEN m1
        ELSE IF overflows /\ overflow_checks THEN [m1 EXCEPT !.res = Panic]
        ELSE shift_loop(m1, shift)

-----------------------------------------------------------------------------
(* The public calls, one action each *)

Min(a, b) == IF a < b THEN a ELSE b

\* texts of at most MaxTextLen characters
Texts == UNION {[1..n -> Chars] : n \in 0..MaxTextLen}

\* The answers the transport can give during a call that attempts at most n
\* writes: all Ok, or Err(e) on the k-th write.  A plan that fails a write the
\* call never attempts is the plan that fails none.
AllPlans(n) == {NoFail} \cup [at : 1..n, err : BusErrors]
Plans(n) == AllPlans(Min(n, MaxFailAt))

\* an Lcd value exists and is in use: it was built and neither consumed by a
\* failed init, nor lost to a panic, nor given up by its caller after a command
\* returned Err (spec.md section 7: the handle is unusable after any reported
\* error).  The type is the same before and after init, so every method can be
\* called in stage "new" as well as in stage "ready".
Live == stage \in {"new", "ready"}

\* the last thing the call did was to complete a Clear or ReturnHome command
EndsUnsettled(m) ==
    /\ m.sent # <<>>
    /\ LET s == m.sent[Len(m.sent)]
       IN  /\ s.mode = Mode_Cmd
           /\ s.data \in {Commands_Clear, Commands_ReturnHome}
           /\ s.end = Len(m.bus)

Return(c, m, st) ==
    /\ lcd' = m.self
    /\ stage' = CASE m.res.tag = "Panic" -> "panicked"
                   [] m.res.tag = "Err" /\ c.op = "init" -> "dropped"
                   [] m.res.tag = "Err" /\ st # "done" -> "failed"
                   [] OTHER -> st
    /\ call' = c
    /\ bus' = m.bus
    /\ sent' = m.sent
    /\ result' = m.res
    /\ due' = IF m.bus = <<>> THEN due ELSE EndsUnsettled(m)

Builder(c, self) == Return(c, Start(self, NoFail), stage)

AddressCall ==
    /\ Live
    /\ \E a \in Addresses : Builder([op |-> "address", args |-> <<a>>], address(lcd, a))

CursorOnCall ==
    /\ Live
    /\ \E on \in BOOLEAN : Builder([op |-> "cursor_on", args |-> <<on>>], cursor_on(lcd, on))

CursorBlinkCall ==
    /\ Live
    /\ \E on \in BOOLEAN :
          Builder([op |-> "cursor_blink", args |-> <<on>>], cursor_blink(lcd, on))

RowsCall ==
    /\ Live
    /\ \E r \in RowCounts : Builder([op |-> "rows", args |-> <<r>>], rows(lcd, r))

\* faulty variant: init first waits out a Clear or ReturnHome that an earlier
\* call left unsettled, so that what it emits depends on the calls before it
InitCall_settles_first ==
    /\ Live
    /\ \E plan \in AllPlans(init(Start(lcd, NoFail)).writes) :
          LET m0 == Start(lcd, plan)
              m == init(IF due THEN delay_ms(m0, 10) ELSE m0)
          IN  Return([op |-> "init", args |-> <<>>], m, "ready")

\* init consumes self: Ok(self) gives it back, Err(e) does not
InitCall ==
    /\ Live
    /\ \E plan \in AllPlans(init(Start(lcd, NoFail)).writes) :
          LET m == init(Start(lcd, plan))
          IN  Return([op |-> "init", args |-> <<>>], m, "ready")

WriteStrCall ==
    /\ Live
    /\ \E data \in Texts :
          \E plan \in Plans(write_str(Start(lcd, NoFail), data).writes) :
             Return([op |-> "write_str", args |-> <<data>>],
                    write_str(Start(lcd, plan), data), stage)

ClearCall ==
    /\ Live
    /\ \E plan \in AllPlans(clear(Start(lcd, NoFail)).writes) :
          Return([op |-> "clear", args |-> <<>>], clear(Start(lcd, plan)), stage)

ReturnHomeCall ==
    /\ Live
    /\ \E plan \in AllPlans(return_home(Start(lcd, NoFail)).writes) :
          Return([op |-> "return_home", args |-> <<>>],
                 return_home(Start(lcd, plan)), stage)

SetCursorCall ==
    /\ Live
    /\ \E rc \in CursorArgs, overflow_checks \in BOOLEAN :
          \E plan \in Plans(set_cursor(Start(lcd, NoFail), rc[1], rc[2],
                                       overflow_checks).writes) :
             Return([op |-> "set_cursor", args |-> rc],
                    set_cursor(Start(lcd, plan), rc[1], rc[2], overflow_checks), stage)

BacklightCall ==
    /\ Live
    /\ \E state \in Backlight :
          \E plan \in AllPlans(backlight(Start(lcd, NoFail), state).writes) :
             Return([op |-> "backlight", args |-> <<state>>],
                    backlight(Start(lcd, plan), state), stage)

Init ==
    /\ lcd \in {new(b) : b \in Backlight}
    /\ stage = "new"
    /\ call = [op |-> "new", args |-> <<lcd.backlight_state>>]
    /\ bus = <<>>
    /\ sent = <<>>
    /\ result = Ok
    /\ due = FALSE

Next ==
    \/ AddressCall
    \/ CursorOnCall
    \/ CursorBlinkCall
    \/ RowsCall
    \/ InitCall
    \/ WriteStrCall
    \/ ClearCall
    \/ ReturnHomeCall
    \/ SetCursorCall
    \/ BacklightCall

Spec == Init /\ [][Next]_vars

-----------------------------------------------------------------------------
(* The private encoder called directly, once, on a built Lcd value: every    *)
(* byte, every Mode and every answer of the transport.                       *)

Bytes == 0..255

Write4bitsCall ==
    /\ stage = "encoder"
    /\ \E data \in Bytes :
          \E plan \in AllPlans(write4bits(Start(lcd, NoFail), data).writes) :
             Return([op |-> "write4bits", args |-> <<data>>],
                    write4bits(Start(lcd, plan), data), "done")

SendCall ==
    /\ stage = "encoder"
    /\ \E data \in Bytes, mode \in Mode :
          \E plan \in AllPlans(send(Start(lcd, NoFail), data, mode).writes) :
             Return([op |-> "send", args |-> <<data, mode>>],
                    send(Start(lcd, plan), data, mode), "done")

InitEncoder ==
    /\ lcd \in {address(new(b), a) : b \in Backlight, a \in Addresses}
    /\ stage = "encoder"
    /\ call = [op |-> "new", args |-> <<lcd.backlight_state>>]
    /\ bus = <<>>
    /\ sent = <<>>
    /\ result = Ok
    /\ due = FALSE

NextEncoder ==
    \/ Write4bitsCall
    \/ SendCall

SpecEncoder == InitEncoder /\ [][NextEncoder]_vars

-----------------------------------------------------------------------------
(* init on every configuration: the builder has run, with any row count a u8
   holds, and init is called on what it built *)

AllRowCounts == 0..255

InitConfigured ==
    /\ lcd \in {rows(cursor_blink(cursor_on(address(new(b), a), on), blink), r) :
                    b \in Backlight, a \in Addresses, on \in BOOLEAN,
                    blink \in BOOLEAN, r \in AllRowCounts}
    /\ stage = "new"
    /\ call = [op |-> "rows", args |-> <<lcd.rows>>]
    /\ bus = <<>>
    /\ sent = <<>>
    /\ result = Ok
    /\ due = FALSE

NextInit == InitCall

SpecInit == InitConfigured /\ [][NextInit]_vars

-----------------------------------------------------------------------------
(* What the claims are stated with *)

\* bit i of x
Bit(x, i) == (x \div (2 ^ i)) % 2 = 1

IsWrite(e) == e.kind = "write"
IsDelay(e) == e.kind = "delay"
OnlyWrites == \A i \in 1..Len(bus) : IsWrite(bus[i])
NumWrites == Cardinality({i \in 1..Len(bus) : IsWrite(bus[i])})
NumDelays == Cardinality({i \in 1..Len(bus) : IsDelay(bus[i])})

\* the byte the controller latches from the two enable pulses that start at
\* event i: the upper halves of the two rising edge bytes
FrameByte(i) == (bus[i].byte \div 16) * 16 + (bus[i + 2].byte \div 16)

-----------------------------------------------------------------------------
(* C1 *)

\* C1 (as amended): a successful send(b, mode), mode Cmd or Data, performs
\* exactly four bus writes: (b&0xF0)|mode|DisplayOn|backlight, then the
\* backlight bit alone, then ((b<<4)&0xF0)|mode|DisplayOn|backlight, then the
\* backlight bit alone; bit 0x08 is set in all four iff the backlight is On.
C1_NibbleFraming ==
    (call.op = "send" /\ call.args[2] \in {Mode_Cmd, Mode_Data} /\ result.tag = "Ok") =>
        LET b == call.args[1]
            mode == call.args[2]
            bl == lcd.backlight_state
        IN  /\ Len(bus) = 4
            /\ OnlyWrites
            /\ bus[1].byte = (b \div 16) * 16 + mode + DisplayControl_DisplayOn + bl
            /\ bus[2].byte = bl
            /\ bus[3].byte = (b % 16) * 16 + mode + DisplayControl_DisplayOn + bl
            /\ bus[4].byte = bl
            /\ \A i \in 1..4 : Bit(bus[i].byte, 3) <=> (bl = Backlight_On)

\* C1 as stated: the two falling edge bytes are mode|backlight.
C1_NibbleFraming_AsStated ==
    (call.op = "send" /\ call.args[2] \in {Mode_Cmd, Mode_Data} /\ result.tag = "Ok") =>
        LET b == call.args[1]
            mode == call.args[2]
            bl == lcd.backlight_state
        IN  /\ Len(bus) = 4
            /\ OnlyWrites
            /\ bus[1].byte = (b \div 16) * 16 + mode + DisplayControl_DisplayOn + bl
            /\ bus[2].byte = mode + bl
            /\ bus[3].byte = (b % 16) * 16 + mode + DisplayControl_DisplayOn + bl
            /\ bus[4].byte = mode + bl
            /\ \A i \in 1..4 : Bit(bus[i].byte, 3) <=> (bl = Backlight_On)

\* send(0x41, Data) with the backlight on has written its four bytes
C1_Witness ==
    /\ call.op = "send"
    /\ call.args = <<65, Mode_Data>>
    /\ result.tag = "Ok"
    /\ lcd.backlight_state = Backlight_On
    /\ Len(bus) = 4
    /\ bus[1].byte = 77
    /\ bus[3].byte = 29

-----------------------------------------------------------------------------
(* C9 *)

\* C9: every nibble transmission is exactly two writes, nibble|0x04|backlight
\* and then the backlight bit alone (enable and every other bit cleared), for
\* every nibble value, mode bits included; the same holds of both pulses of a
\* send.
C9_EnablePulse ==
    LET bl == lcd.backlight_state
        Rising(byte, nibble, mode) ==
            \A i \in 0..7 : Bit(byte, i) <=>
                \/ Bit(nibble, i)
                \/ Bit(mode, i)
                \/ Bit(DisplayControl_DisplayOn, i)
                \/ Bit(bl, i)
    IN  /\ (call.op = "write4bits" /\ result.tag = "Ok") =>
              /\ Len(bus) = 2
              /\ OnlyWrites
              /\ Rising(bus[1].byte, call.args[1], 0)
              /\ bus[2].byte = bl
              /\ ~Bit(bus[2].byte, 2)
        /\ (call.op = "send" /\ result.tag = "Ok") =>
              /\ Len(bus) = 4
              /\ OnlyWrites
              /\ Rising(bus[1].byte, (call.args[1] \div 16) * 16, call.args[2])
              /\ bus[2].byte = bl
              /\ Rising(bus[3].byte, (call.args[1] % 16) * 16, call.args[2])
              /\ bus[4].byte = bl

\* write4bits(0x31) with the backlight on has written 0x3D and then 0x08
C9_Witness ==
    /\ call.op = "write4bits"
    /\ call.args = <<49>>
    /\ result.tag = "Ok"
    /\ lcd.backlight_state = Backlight_On
    /\ bus[1].byte = 61
    /\ bus[2].byte = 8

-----------------------------------------------------------------------------
(* C2 *)

\* C2: every byte written by any call has bit 0x08 set iff the backlight
\* state stored at the moment of the write is On; and while the stored state
\* is Off, no call other than backlight(On) writes a byte with bit 0x08 set.
C2_BacklightPersistence ==
    [][ /\ \A i \in 1..Len(bus') :
              IsWrite(bus'[i]) =>
                  (Bit(bus'[i].byte, 3) <=> (bus'[i].backlight_state = Backlight_On))
        /\ ( /\ lcd.backlight_state = Backlight_Off
             /\ ~(call'.op = "backlight" /\ call'.args[1] = Backlight_On) )
           => \A i \in 1..Len(bus') : IsWrite(bus'[i]) => ~Bit(bus'[i].byte, 3)
      ]_vars

\* with the backlight off, a ready handle has written a text of two
\* characters, and none of the eight bytes has bit 0x08
C2_Witness ==
    /\ stage = "ready"
    /\ call.op = "write_str"
    /\ result.tag = "Ok"
    /\ lcd.backlight_state = Backlight_Off
    /\ Len(bus) = 8
    /\ \A i \in 1..8 : ~Bit(bus[i].byte, 3)

-----------------------------------------------------------------------------
(* C3 *)

Recorded ==
    [i \in 1..Len(bus) |->
        IF IsWrite(bus[i]) THEN <<"write", bus[i].byte>> ELSE <<"delay", bus[i].ms>>]

\* the two writes of one enable pulse, and the four of one full byte in Cmd mode
Pulse(nibble, bl) == << <<"write", nibble + 4 + bl>>, <<"write", bl>> >>
CmdFrame(b, bl) == Pulse((b \div 16) * 16, bl) \o Pulse((b % 16) * 16, bl)

InitTrace(function_set, display_control, bl) ==
    << <<"delay", 80>> >>
    \o Pulse(48, bl) \o << <<"delay", 5>> >>
    \o Pulse(48, bl) \o << <<"delay", 5>> >>
    \o Pulse(48, bl) \o << <<"delay", 5>> >>
    \o Pulse(32, bl)
    \o CmdFrame(function_set, bl)
    \o CmdFrame(display_control, bl)
    \o CmdFrame(1, bl)
    \o CmdFrame(4, bl)
    \o << <<"write", 4 + bl>> >>

\* C3: an init without bus error emits exactly: delay(80); three times the
\* enable pulse of 0x30 followed by delay(5); one enable pulse of 0x20; the
\* Cmd-mode bytes FunctionSet(lines), DisplayControl, Clear 0x01, EntryModeSet
\* 0x04; one standalone backlight byte; and returns the handle: 25 writes and
\* 4 delays.
C3_InitSequence ==
    (call.op = "init" /\ result.tag = "Ok") =>
        /\ stage = "ready"
        /\ NumWrites = 25
        /\ NumDelays = 4
        /\ \E function_set \in {32, 40}, display_control \in 12..15 :
              Recorded = InitTrace(function_set, display_control, lcd.backlight_state)

\* an init on two rows with cursor and backlight on has returned the handle
C3_Witness ==
    /\ call.op = "init"
    /\ result.tag = "Ok"
    /\ stage = "ready"
    /\ lcd.rows = 2 /\ lcd.cursor_on /\ lcd.backlight_state = Backlight_On
    /\ Len(bus) = 29
    /\ FrameByte(13) = 40

-----------------------------------------------------------------------------
(* C4 *)

FailedWrite(i) == IsWrite(bus[i]) /\ bus[i].res.tag = "Err"
WritesUpTo(i) == Cardinality({j \in 1..i : IsWrite(bus[j])})

\* C4: if the N-th bus write of init returns an error, exactly N writes are
\* attempted, nothing (no write, no delay) follows the failing write, init
\* returns that error, and no handle is returned; init returns an error only
\* then.
C4_InitFailFast ==
    (call.op = "init") =>
        /\ \A i \in 1..Len(bus) :
              FailedWrite(i) =>
                  /\ i = Len(bus)
                  /\ NumWrites = WritesUpTo(i)
                  /\ result = Err(bus[i].res.err)
                  /\ stage = "dropped"
        /\ (result.tag = "Err") => (bus # <<>> /\ FailedWrite(Len(bus)))
        /\ (stage = "dropped") => (result.tag = "Err")

\* the 25th and last write of init, the backlight byte, has failed
C4_Witness ==
    /\ call.op = "init"
    /\ NumWrites = 25
    /\ FailedWrite(Len(bus))
    /\ result = Err("Overrun")
    /\ stage = "dropped"

\* the first write after a delay has failed: the third write of init
C4_WitnessThird ==
    /\ call.op = "init"
    /\ NumWrites = 3
    /\ NumDelays = 2
    /\ FailedWrite(Len(bus))

-----------------------------------------------------------------------------
(* C5 *)

\* C5 as stated: a successful set_cursor(row, col) performs return_home (the
\* ReturnHome command, then its settle delay) and then issues ShiftCursor in
\* Cmd mode exactly row*40 + col times, the mathematical value.
C5_CursorMath ==
    (call.op = "set_cursor" /\ result.tag = "Ok") =>
        /\ Len(sent) = 1 + call.args[1] * 40 + call.args[2]
        /\ sent[1] = [data |-> Commands_ReturnHome, mode |-> Mode_Cmd, end |-> 4]
        /\ bus[5] = [kind |-> "delay", ms |-> 10]
        /\ \A k \in 2..Len(sent) :
              sent[k].data = Commands_ShiftCursor /\ sent[k].mode = Mode_Cmd

\* what the code does where row*40 + col fits in a u8
C5_CursorMathInRange ==
    (call.op = "set_cursor" /\ call.args[1] * 40 + call.args[2] <= 255) => C5_CursorMath

-----------------------------------------------------------------------------
(* C6 *)

IsSettle(e) == IsDelay(e) /\ e.ms >= 10

\* C6 as stated: whenever a Clear or ReturnHome command has been fully sent,
\* by whatever call, the next event on the bus side is a delay of at least
\* 10 ms: within the call that sent it, and, when the command ended its call,
\* in the next call that writes.
C6_SettleDelay ==
    [][ /\ \A k \in 1..Len(sent') :
              ( /\ sent'[k].mode = Mode_Cmd
                /\ sent'[k].data \in {Commands_Clear, Commands_ReturnHome}
                /\ sent'[k].end < Len(bus') )
              => IsSettle(bus'[sent'[k].end + 1])
        /\ (due /\ bus' # <<>>) => IsSettle(bus'[1])
      ]_vars

-----------------------------------------------------------------------------
(* C7 *)

\* C7 as stated: the DisplayControl byte of init has DisplayOn 0x04 set,
\* CursorOn 0x02 set iff cursor_on, CursorBlink 0x01 set iff cursor_blink.
C7_DisplayControl ==
    (call.op = "init" /\ result.tag = "Ok") =>
        /\ Bit(FrameByte(17), 2)
        /\ Bit(FrameByte(17), 1) <=> lcd.cursor_on
        /\ Bit(FrameByte(17), 0) <=> lcd.cursor_blink

-----------------------------------------------------------------------------
(* C8 *)

CommandOps == {"write_str", "clear", "return_home", "set_cursor", "backlight"}

\* C8 as stated: a Command API operation writes to the bus only on a handle
\* that a successful init has returned; a value that was built but not
\* initialized issues no command.
C8_NoCommandBeforeInit ==
    [][ (call'.op \in CommandOps /\ bus' # <<>>) => (stage = "ready") ]_vars

-----------------------------------------------------------------------------
(* C10 *)

\* the text of the latest write_str
Text == call.args[1]

\* the writes are n frames in Data mode: rising edge bytes with the register
\* bit 0x01 and the enable bit, each followed by its falling edge byte
DataFrames(n) ==
    /\ Len(bus) = 4 * n
    /\ OnlyWrites
    /\ \A i \in 1..(2 * n) :
          /\ bus[2 * i - 1].byte % 16 = Mode_Data + 4 + lcd.backlight_state
          /\ bus[2 * i].byte = lcd.backlight_state

\* C10 (as amended): a successful write_str of n characters performs exactly
\* n Data-mode sends (4n writes, no delay), the i-th carrying the low 8 bits
\* of the code of the i-th character, in input order; the empty text
\* performs no write and no delay.
C10_WriteStr ==
    (call.op = "write_str" /\ result.tag = "Ok") =>
        /\ DataFrames(Len(Text))
        /\ \A i \in 1..Len(Text) : FrameByte(4 * i - 3) = Text[i] % 256
        /\ (Text = <<>>) => (bus = <<>>)

\* C10 as stated: the i-th send carries the code of the i-th character.
C10_WriteStr_AsStated ==
    (call.op = "write_str" /\ result.tag = "Ok") =>
        /\ DataFrames(Len(Text))
        /\ \A i \in 1..Len(Text) : FrameByte(4 * i - 3) = Text[i]
        /\ (Text = <<>>) => (bus = <<>>)

\* write_str of 'A' and the euro sign has sent 0x41 and then 0xAC
C10_Witness ==
    /\ call.op = "write_str"
    /\ result.tag = "Ok"
    /\ Text = <<65, 8364>>
    /\ Len(bus) = 8
    /\ FrameByte(1) = 65
    /\ FrameByte(5) = 172

\* write_str of the empty text has returned without a write or a delay
C10_WitnessEmpty ==
    /\ call.op = "write_str"
    /\ result.tag = "Ok"
    /\ Text = <<>>
    /\ bus = <<>>

-----------------------------------------------------------------------------
(* C11 *)

\* what init emits for a configuration when no write fails
ExpectedInit(self) ==
    InitTrace(IF self.rows = 0 THEN 32 ELSE 40,
              12 + (IF self.cursor_on
                    THEN 2 + (IF self.cursor_blink THEN 1 ELSE 0)
                    ELSE 0),
              self.backlight_state)

\* C11: the interleaved sequence of (address, byte) writes and delay(ms)
\* calls of init is a function of the configuration it is called on
\* (address, rows, cursor_on, cursor_blink, backlight) and of the answers of
\* the transport, whatever calls came before: it is the sequence fixed by
\* the configuration, cut after the first write the transport fails, every
\* write going to the configured address; two runs on equal configurations
\* with equal answers therefore emit equal sequences.
C11_InitDeterminism ==
    [][ (call'.op = "init") =>
           /\ Len(bus') \in 1..29
           /\ Recorded' = SubSeq(ExpectedInit(lcd), 1, Len(bus'))
           /\ \A i \in 1..Len(bus') :
                 IsWrite(bus'[i]) =>
                     /\ bus'[i].address = lcd.address
                     /\ (i < Len(bus')) => (bus'[i].res = Ok)
           /\ (result'.tag = "Ok") <=> (Len(bus') = 29 /\ bus'[29].res = Ok)
           /\ (result'.tag = "Ok") => (lcd' = lcd)
      ]_vars

\* an init on address 39 with blinking cursor has emitted all 29 events
C11_Witness ==
    /\ call.op = "init"
    /\ result.tag = "Ok"
    /\ lcd.address = 39
    /\ lcd.cursor_on /\ lcd.cursor_blink
    /\ Len(bus) = 29
    /\ FrameByte(17) = 15
    /\ bus[29].address = 39

-----------------------------------------------------------------------------
(* C12 *)

AbortingOps == {"write_str", "clear", "return_home", "set_cursor"}

\* C12: in write_str, clear, return_home and set_cursor a failed bus write
\* is the last thing the call does: no write and no delay follows it (not
\* the remaining low nibble, characters or ShiftCursor steps, not the settle
\* delay of return_home), no write before it had failed, the call returns
\* the error of that write, and it returns an error only then.
C12_CommandAbort ==
    (call.op \in AbortingOps) =>
        /\ \A i \in 1..Len(bus) :
              FailedWrite(i) =>
                  /\ i = Len(bus)
                  /\ result = Err(bus[i].res.err)
                  /\ Len(sent) = (WritesUpTo(i) - 1) \div 4
        /\ (result.tag = "Err") => (bus # <<>> /\ FailedWrite(Len(bus)))

\* the fourth write of return_home has failed and the settle delay is skipped
C12_Witness ==
    /\ call.op = "return_home"
    /\ Len(bus) = 4
    /\ FailedWrite(4)
    /\ result = Err("Nack")

\* the first write of the first ShiftCursor of set_cursor has failed
C12_WitnessShift ==
    /\ call.op = "set_cursor"
    /\ Len(bus) = 6
    /\ bus[5] = [kind |-> "delay", ms |-> 10]
    /\ FailedWrite(6)
    /\ result.tag = "Err"

\* the low nibble of the second character of write_str is skipped
C12_WitnessText ==
    /\ call.op = "write_str"
    /\ Len(Text) = 2
    /\ Len(bus) = 5
    /\ FailedWrite(5)
    /\ result.tag = "Err"

-----------------------------------------------------------------------------
(* C13 *)

\* C13: a successful backlight(state), for either state and whatever state
\* was stored before, stores state, leaves address, rows and the cursor
\* flags as they were, and emits exactly one event: one bus write to the
\* configured address of a byte whose bit 0x08 is set iff state is On; no
\* delay and no nibble frame.
C13_BacklightImmediate ==
    [][ (call'.op = "backlight" /\ result'.tag = "Ok") =>
           /\ lcd' = [lcd EXCEPT !.backlight_state = call'.args[1]]
           /\ Len(bus') = 1
           /\ IsWrite(bus'[1])
           /\ bus'[1].address = lcd.address
           /\ Bit(bus'[1].byte, 3) <=> (call'.args[1] = Backlight_On)
           /\ bus'[1].byte \div 16 = 0
           /\ sent' = <<>>
      ]_vars

\* backlight(On) has succeeded on an initialized handle
C13_Witness ==
    /\ call = [op |-> "backlight", args |-> <<Backlight_On>>]
    /\ result.tag = "Ok"
    /\ stage = "ready"
    /\ lcd.backlight_state = Backlight_On
    /\ Len(bus) = 1
    /\ Bit(bus[1].byte, 3)

\* backlight(Off) has succeeded on an initialized handle
C13_WitnessOff ==
    /\ call = [op |-> "backlight", args |-> <<Backlight_Off>>]
    /\ result.tag = "Ok"
    /\ stage = "ready"
    /\ lcd.backlight_state = Backlight_Off
    /\ Len(bus) = 1
    /\ ~Bit(bus[1].byte, 3)

-----------------------------------------------------------------------------
(* C14 *)

SetterOps == {"address", "rows", "cursor_on", "cursor_blink"}

\* the configuration after the setters named in calls, applied in that order
RECURSIVE Apply(_, _)
Apply(self, calls) ==
    IF calls = <<>> THEN self
    ELSE LET c == Head(calls)
             next == CASE c[1] = "address" -> address(self, c[2])
                       [] c[1] = "rows" -> rows(self, c[2])
                       [] c[1] = "cursor_on" -> cursor_on(self, c[2])
                       [] c[1] = "cursor_blink" -> cursor_blink(self, c[2])
         IN  Apply(next, Tail(calls))

\* one call of each setter, with arguments that differ from the defaults
FourCalls ==
    << <<"address", 39>>, <<"rows", 2>>, <<"cursor_on", TRUE>>, <<"cursor_blink", TRUE>> >>

\* the orders of four calls
Orders == {p \in [1..4 -> 1..4] : \A i, j \in 1..4 : (p[i] = p[j]) => (i = j)}

\* C14: a setter (address, rows, cursor_on, cursor_blink) emits no bus write
\* and no delay and changes its own field, to its argument, and no other, so
\* that the last of two calls of one setter wins; and from every
\* configuration, the calls of the four setters in any order give the same
\* configuration (and init emits what the configuration fixes, C11).
C14_Setters ==
    [][ (call'.op \in SetterOps) =>
           /\ bus' = <<>>
           /\ result' = Ok
           /\ stage' = stage
           /\ lcd' = CASE call'.op = "address" -> [lcd EXCEPT !.address = call'.args[1]]
                       [] call'.op = "rows" -> [lcd EXCEPT !.rows = call'.args[1]]
                       [] call'.op = "cursor_on" -> [lcd EXCEPT !.cursor_on = call'.args[1]]
                       [] call'.op = "cursor_blink" ->
                             [lcd EXCEPT !.cursor_blink = call'.args[1]]
           /\ \A p \in Orders :
                 Apply(lcd, [i \in 1..4 |-> FourCalls[p[i]]]) = Apply(lcd, FourCalls)
      ]_vars

\* rows(2) has been called on a value whose cursor is already switched on
C14_Witness ==
    /\ call = [op |-> "rows", args |-> <<2>>]
    /\ stage = "new"
    /\ lcd.rows = 2
    /\ lcd.cursor_on
    /\ lcd.address = 39
    /\ bus = <<>>

-----------------------------------------------------------------------------
(* C15 *)

\* what a return_home without bus error emits
HomeTrace(bl) == CmdFrame(Commands_ReturnHome, bl) \o << <<"delay", 10>> >>

\* C15: a successful return_home emits the four writes of ReturnHome (0x02
\* in Cmd mode) and then one delay of 10 ms, and nothing else; a set_cursor
\* that gets past its fourth write emits these five events first, its
\* ShiftCursor writes come after them, and it takes no other delay.
C15_ReturnHomeOrder ==
    /\ (call.op = "return_home" /\ result.tag = "Ok") =>
           /\ Recorded = HomeTrace(lcd.backlight_state)
           /\ sent = << [data |-> Commands_ReturnHome, mode |-> Mode_Cmd, end |-> 4] >>
    /\ (call.op = "set_cursor" /\ (Len(bus) > 4 \/ result.tag = "Ok")) =>
           /\ SubSeq(Recorded, 1, 5) = HomeTrace(lcd.backlight_state)
           /\ NumDelays = 1
           /\ sent[1] = [data |-> Commands_ReturnHome, mode |-> Mode_Cmd, end |-> 4]
           /\ \A k \in 2..Len(sent) :
                 sent[k].data = Commands_ShiftCursor /\ sent[k].end > 5

\* return_home has succeeded with the backlight on: four writes, then the delay
C15_Witness ==
    /\ call.op = "return_home"
    /\ result.tag = "Ok"
    /\ lcd.backlight_state = Backlight_On
    /\ Len(bus) = 5
    /\ FrameByte(1) = Commands_ReturnHome
    /\ bus[5] = [kind |-> "delay", ms |-> 10]

\* set_cursor(1, 3) has sent ReturnHome, waited, and shifted 43 times
C15_WitnessCursor ==
    /\ call = [op |-> "set_cursor", args |-> <<1, 3>>]
    /\ result.tag = "Ok"
    /\ Len(sent) = 44
    /\ bus[5] = [kind |-> "delay", ms |-> 10]
    /\ FrameByte(6) = Commands_ShiftCursor

-----------------------------------------------------------------------------
(* C16 *)

\* C16: the FunctionSet byte of a successful init is 0x20 when rows is 0 and
\* 0x28 for every row count 1..255, and the row count shows nowhere else:
\* the events of the init are those of an init on the same configuration
\* with rows 0, but for bit 0x80 of the rising edge byte of the low nibble
\* of FunctionSet (event 15).
C16_FunctionSetLines ==
    (call.op = "init" /\ result.tag = "Ok") =>
        LET zero == init(Start(rows(lcd, 0), NoFail)).bus
        IN  /\ FrameByte(13) = IF lcd.rows = 0 THEN 32 ELSE 40
            /\ Len(bus) = Len(zero)
            /\ \A i \in 1..Len(bus) : (i # 15) => (bus[i] = zero[i])
            /\ bus[15] = [zero[15] EXCEPT !.byte = @ + (IF lcd.rows = 0 THEN 0 ELSE 128)]

\* init with 255 rows has sent FunctionSet 0x28
C16_Witness ==
    /\ call.op = "init"
    /\ result.tag = "Ok"
    /\ lcd.rows = 255
    /\ FrameByte(13) = 40

\* init with 1 row has sent FunctionSet 0x28
C16_WitnessOne ==
    /\ call.op = "init"
    /\ result.tag = "Ok"
    /\ lcd.rows = 1
    /\ FrameByte(13) = 40

\* init with 0 rows has sent FunctionSet 0x20
C16_WitnessZero ==
    /\ call.op = "init"
    /\ result.tag = "Ok"
    /\ lcd.rows = 0
    /\ FrameByte(13) = 32

-----------------------------------------------------------------------------
(* C17 *)

\* event i is a write of a byte with the enable bit 0x04 set
EnableSet(i) == IsWrite(bus[i]) /\ Bit(bus[i].byte, 2)

\* event i is a write with the enable bit set and the next event is a write
\* with the enable bit cleared
PulseCompleted(i) ==
    /\ EnableSet(i)
    /\ i < Len(bus)
    /\ IsWrite(bus[i + 1])
    /\ ~Bit(bus[i + 1].byte, 2)

\* the last write of the call, 0 when it made none
LastWrite ==
    IF NumWrites = 0 THEN 0
    ELSE CHOOSE i \in 1..Len(bus) :
            IsWrite(bus[i]) /\ \A j \in (i + 1)..Len(bus) : ~IsWrite(bus[j])

\* C17 as stated: in a sequence without error every write with the enable
\* bit set is immediately followed by a write with the enable bit cleared,
\* and every operation returns with the enable bit cleared in the last byte
\* it wrote.
C17_EnableCompleted_AsStated ==
    (result.tag = "Ok") =>
        /\ \A i \in 1..Len(bus) : EnableSet(i) => PulseCompleted(i)
        /\ (LastWrite > 0) => ~EnableSet(LastWrite)

\* C17 (as amended): in a sequence without error every write with the
\* enable bit set is immediately followed by a write with the enable bit
\* cleared, except the standalone byte of backlight, which is the only write
\* of backlight and the last write of init: it has the enable bit set and
\* nothing follows it in its call.  write_str, clear, return_home and
\* set_cursor return with the enable bit cleared in the last byte they
\* wrote; init and backlight return with it set.
C17_EnableCompleted ==
    (result.tag = "Ok") =>
        /\ \A i \in 1..Len(bus) :
              EnableSet(i) =>
                  \/ PulseCompleted(i)
                  \/ (i = Len(bus) /\ call.op \in {"init", "backlight"})
        /\ (call.op \in {"init", "backlight"}) =>
               (EnableSet(Len(bus)) /\ bus[Len(bus)].byte = 4 + lcd.backlight_state)
        /\ (call.op \in AbortingOps /\ LastWrite > 0) => ~EnableSet(LastWrite)

\* init has returned: its pulses are completed, its last byte, the backlight
\* byte, has the enable bit set
C17_Witness ==
    /\ call.op = "init"
    /\ result.tag = "Ok"
    /\ Len(bus) = 29
    /\ PulseCompleted(27)
    /\ EnableSet(29)
    /\ LastWrite = 29

\* clear has returned with the enable bit cleared
C17_WitnessClear ==
    /\ call.op = "clear"
    /\ result.tag = "Ok"
    /\ PulseCompleted(1) /\ PulseCompleted(3)
    /\ LastWrite = 4

-----------------------------------------------------------------------------
(* C18 *)

\* C18 as stated: when the write of backlight(state) fails the stored
\* backlight state is what it was before the call.
C18_BacklightRollback_AsStated ==
    [][ (call'.op = "backlight" /\ result'.tag = "Err") =>
           (lcd'.backlight_state = lcd.backlight_state)
      ]_vars

\* C18 (as amended): when the one write of backlight(state) fails the
\* stored backlight state is state, the one asked for, whatever it was
\* before; nothing else of the value has changed, and the failed write, of
\* the byte for state, is the only event of the call.
C18_BacklightStoredFirst ==
    [][ (call'.op = "backlight" /\ result'.tag = "Err") =>
           /\ lcd' = [lcd EXCEPT !.backlight_state = call'.args[1]]
           /\ Len(bus') = 1
           /\ IsWrite(bus'[1])
           /\ bus'[1].res = result'
           /\ bus'[1].byte = 4 + call'.args[1]
      ]_vars

\* the write of backlight(On) has failed and the stored state is On
C18_Witness ==
    /\ call = [op |-> "backlight", args |-> <<Backlight_On>>]
    /\ result.tag = "Err"
    /\ stage = "failed"
    /\ lcd.backlight_state = Backlight_On
    /\ Len(bus) = 1
    /\ FailedWrite(1)

-----------------------------------------------------------------------------
(* C19 *)

\* C19: write_str makes one Data-mode send for each character of the text,
\* not one for each byte of its UTF-8 encoding: the i-th send it completes
\* carries the code p of the i-th character modulo 256 (p itself below
\* 256) and ends with the 4i-th write, and a write_str that succeeds has
\* completed as many sends as the text has characters.
C19_CharsNotBytes ==
    (call.op = "write_str") =>
        /\ Len(sent) <= Len(Text)
        /\ \A i \in 1..Len(sent) :
              /\ sent[i] = [data |-> Text[i] % 256, mode |-> Mode_Data, end |-> 4 * i]
              /\ (Text[i] < 256) => (sent[i].data = Text[i])
        /\ (result.tag = "Ok") => (Len(sent) = Len(Text) /\ NumWrites = 4 * Len(Text))

\* the euro sign, three bytes in UTF-8, went out as one send of 0xAC
C19_Witness ==
    /\ call.op = "write_str"
    /\ result.tag = "Ok"
    /\ Text = <<8364>>
    /\ Len(Utf8Bytes(Text)) = 3
    /\ sent = << [data |-> 172, mode |-> Mode_Data, end |-> 4] >>

====
